---------------------------- MODULE Spec2Model ----------------------------
(***************************************************************************)
(* Model of src/src/main.rs: the emergency-response dashboard.             *)
(*                                                                         *)
(* The program is one struct, EmergencyApp, redrawn frame by frame by      *)
(* eframe (update).  Its only logic is the three threshold classifiers of  *)
(* VitalSigns (bp_status, hr_status, o2_status), the tab selection and the *)
(* chat Send button.                                                       *)
(*                                                                         *)
(* Four specifications:                                                    *)
(*   SpecClassifier  a caller holds one VitalSigns value, drawn from       *)
(*                   bounded sets around every threshold and the ends of   *)
(*                   i32, and calls the three classifiers on it;           *)
(*   SpecPair        a caller classifies one value and then a second one;  *)
(*   SpecConcurrent  several callers share one value and run their calls   *)
(*                   branch by branch, interleaved;                        *)
(*   Spec            the application: EmergencyApp::default() followed by  *)
(*                   frames of update(), one input event per frame.        *)
(*                                                                         *)
(* Representation: a Rust String typed by the operator is a sequence of    *)
(* one-character strings; an Option is the value or None; an f32           *)
(* temperature is written in tenths of a degree; a Vec is a sequence, so   *)
(* Rust index i is TLA+ index i + 1.                                       *)
(***************************************************************************)
EXTENDS Integers, Sequences, FiniteSets, TLC

VARIABLES
    patients,            \* EmergencyApp.patients: Vec<Patient>
    hospitals,           \* EmergencyApp.hospitals: Vec<Hospital>
    specialists,         \* EmergencyApp.specialists: Vec<Specialist>
    chat_messages,       \* EmergencyApp.chat_messages: Vec<ChatMessage>
    active_tab,          \* EmergencyApp.active_tab: usize
    chat_input,          \* EmergencyApp.chat_input: String
    selected_patient,    \* EmergencyApp.selected_patient: Option<usize>
    ambulance_available, \* EmergencyApp.ambulance_available: u32
    ambulance_en_route,  \* EmergencyApp.ambulance_en_route: u32
    ambulance_at_scene,  \* EmergencyApp.ambulance_at_scene: u32
    clock,               \* the latest value Local::now() has returned
    screen,              \* what the last frame drew in the central panel
    call_log,            \* every classifier call made so far: name, receiver, result
    vitals,              \* the VitalSigns value a caller of the classifiers holds
    status,              \* the results of that caller's latest calls
    callers              \* the calls in progress of callers sharing that value

app_vars == <<patients, hospitals, specialists, chat_messages, active_tab,
              chat_input, selected_patient, ambulance_available,
              ambulance_en_route, ambulance_at_scene>>

vars == <<patients, hospitals, specialists, chat_messages, active_tab,
          chat_input, selected_patient, ambulance_available,
          ambulance_en_route, ambulance_at_scene, clock, screen, call_log,
          vitals, status, callers>>

---------------------------------------------------------------------------
(* Bounds of the model. *)

\* the longest chat input the operator types
MaxInputLen == 2

\* the number of messages the operator sends
MaxSent == 1

\* the minutes after startup at which Local::now() is read
Minutes == {0, 1}

\* the characters the operator types: one whitespace, one not
Alphabet == {" ", "a"}

I32Min == -2147483647 - 1
I32Max == 2147483647

\* inputs of the classifiers: both sides of every threshold, the values the
\* demo data and the documented examples use, and the ends of i32
SystolicInputs == {I32Min, -1, 0, 120, 140, 141, 150, 180, 181, I32Max}
DiastolicInputs == {I32Min, 0, 80, 90, 91, 95, 120, 121, I32Max}
HeartRateInputs == {I32Min, -1, 45, 49, 50, 55, 59, 60, 72, 100, 101, 110,
                    120, 121, 125, I32Max}
OxygenInputs == {I32Min, 89, 90, 91, 94, 95, 99, 101, I32Max}
TemperatureInputs == {365, 385}

---------------------------------------------------------------------------
(* TriageLevel and its display mapping. *)

TriageLevel == {"Critical", "High", "Medium", "Low"}

\* color with the Medium arm returning the colour of the High arm
color_shared(level) ==
    CASE level = "Critical" -> <<231, 76, 60>>
      [] level = "High" -> <<243, 156, 18>>
      [] level = "Medium" -> <<243, 156, 18>>
      [] level = "Low" -> <<46, 204, 113>>

color(level) ==
    CASE level = "Critical" -> <<231, 76, 60>>
      [] level = "High" -> <<243, 156, 18>>
      [] level = "Medium" -> <<241, 196, 15>>
      [] level = "Low" -> <<46, 204, 113>>

text(level) ==
    CASE level = "Critical" -> "CRITICAL"
      [] level = "High" -> "HIGH"
      [] level = "Medium" -> "MEDIUM"
      [] level = "Low" -> "LOW"

---------------------------------------------------------------------------
(* VitalSigns and the three classifiers. *)

VitalSigns(bp, hr, o2, temp) ==
    [blood_pressure |-> bp, heart_rate |-> hr, oxygen_saturation |-> o2,
     temperature |-> temp]

\* the condition of the first branch of bp_status
bp_critical(self) ==
    self.blood_pressure[1] > 180 \/ self.blood_pressure[2] > 120

\* bp_high with its boundaries included
bp_high_inclusive(self) ==
    self.blood_pressure[1] >= 140 \/ self.blood_pressure[2] >= 90

\* bp_high with both readings required
bp_high_and(self) ==
    self.blood_pressure[1] > 140 /\ self.blood_pressure[2] > 90

\* the condition of the second branch of bp_status, as written
bp_high(self) ==
    self.blood_pressure[1] > 140 \/ self.blood_pressure[2] > 90

\* bp_status with the critical boundaries included
bp_status_inclusive(self) ==
    IF self.blood_pressure[1] >= 180 \/ self.blood_pressure[2] >= 120
    THEN "Critical"
    ELSE IF bp_high(self) THEN "High"
    ELSE "Low"

\* bp_status answering from the colour last drawn for the first card
bp_status_cached(self) ==
    IF screen.cards # <<>> THEN screen.cards[1].bp
    ELSE IF bp_critical(self) THEN "Critical"
    ELSE IF bp_high(self) THEN "High"
    ELSE "Low"

\* bp_status with the results of its first two branches exchanged
bp_status_swapped(self) ==
    IF bp_critical(self) THEN "High"
    ELSE IF bp_high(self) THEN "Critical"
    ELSE "Low"

bp_status(self) ==
    IF bp_critical(self) THEN "Critical"
    ELSE IF bp_high(self) THEN "High"
    ELSE "Low"

\* the condition of the first branch of hr_status
hr_critical(self) == self.heart_rate < 50 \/ self.heart_rate > 120

\* the condition of the second branch of hr_status, as written
hr_high(self) == self.heart_rate < 60 \/ self.heart_rate > 100

\* hr_status with its boundaries included
hr_status_inclusive(self) ==
    IF self.heart_rate <= 50 \/ self.heart_rate >= 120 THEN "Critical"
    ELSE IF self.heart_rate <= 60 \/ self.heart_rate >= 100 THEN "High"
    ELSE "Low"

\* hr_status without the lower limits
hr_status_upper_only(self) ==
    IF self.heart_rate > 120 THEN "Critical"
    ELSE IF self.heart_rate > 100 THEN "High"
    ELSE "Low"

\* hr_status rejecting a negative rate
hr_status_validating(self) ==
    IF self.heart_rate < 0 THEN "Invalid"
    ELSE IF hr_critical(self) THEN "Critical"
    ELSE IF hr_high(self) THEN "High"
    ELSE "Low"

hr_status(self) ==
    IF hr_critical(self) THEN "Critical"
    ELSE IF hr_high(self) THEN "High"
    ELSE "Low"

\* the condition of the first branch of o2_status
o2_critical(self) == self.oxygen_saturation < 90

\* o2_high raised by a fever
o2_high_fever(self) ==
    self.oxygen_saturation < 95 \/ self.temperature > 380

\* the condition of the second branch of o2_status, as written
o2_high(self) == self.oxygen_saturation < 95

\* o2_status with its boundaries included
o2_status_inclusive(self) ==
    IF self.oxygen_saturation <= 90 THEN "Critical"
    ELSE IF self.oxygen_saturation <= 95 THEN "High"
    ELSE "Low"

\* o2_status with a middle tier
o2_status_medium(self) ==
    IF self.oxygen_saturation < 90 THEN "Critical"
    ELSE IF self.oxygen_saturation < 93 THEN "High"
    ELSE IF self.oxygen_saturation < 95 THEN "Medium"
    ELSE "Low"

\* o2_status with its comparisons reversed
o2_status_reversed(self) ==
    IF self.oxygen_saturation > 90 THEN "Critical"
    ELSE IF self.oxygen_saturation > 95 THEN "High"
    ELSE "Low"

o2_status(self) ==
    IF o2_critical(self) THEN "Critical"
    ELSE IF o2_high(self) THEN "High"
    ELSE "Low"

\* one entry of call_log: the classifier, its receiver, what it returned, and
\* whether the operator had sent a message when it was called
Call(name, self, result, after_send) ==
    [fn |-> name, receiver |-> self, result |-> result,
     after_send |-> after_send]

---------------------------------------------------------------------------
(* The caller of the classifiers (SpecClassifier). *)

NoCall == "NoCall"

VitalSignsInputs ==
    {VitalSigns(<<s, d>>, r, o, t) :
        s \in SystolicInputs, d \in DiastolicInputs, r \in HeartRateInputs,
        o \in OxygenInputs, t \in TemperatureInputs}

call_bp_status ==
    /\ status' = [status EXCEPT !.bp = bp_status(vitals)]
    /\ call_log' = call_log \cup {Call("bp_status", vitals, bp_status(vitals),
                                   FALSE)}
    /\ UNCHANGED <<app_vars, clock, screen, vitals, callers>>

call_hr_status ==
    /\ status' = [status EXCEPT !.hr = hr_status(vitals)]
    /\ call_log' = call_log \cup {Call("hr_status", vitals, hr_status(vitals),
                                   FALSE)}
    /\ UNCHANGED <<app_vars, clock, screen, vitals, callers>>

call_o2_status ==
    /\ status' = [status EXCEPT !.o2 = o2_status(vitals)]
    /\ call_log' = call_log \cup {Call("o2_status", vitals, o2_status(vitals),
                                   FALSE)}
    /\ UNCHANGED <<app_vars, clock, screen, vitals, callers>>

---------------------------------------------------------------------------
(* Strings the operator types. *)

NoneValue == "None"

is_whitespace(c) == c = " "

RECURSIVE trim_start(_)
trim_start(s) ==
    IF s # <<>> /\ is_whitespace(Head(s)) THEN trim_start(Tail(s)) ELSE s

RECURSIVE trim_end(_)
trim_end(s) ==
    IF s # <<>> /\ is_whitespace(s[Len(s)])
    THEN trim_end(SubSeq(s, 1, Len(s) - 1))
    ELSE s

\* str::trim: leading and trailing whitespace removed
trim(s) == trim_end(trim_start(s))

is_empty(s) == Len(s) = 0

---------------------------------------------------------------------------
(* The demo data of EmergencyApp::default(). *)

\* Local::now() when the application is constructed, in minutes; the seed
\* messages are dated one to four minutes earlier
StartClock == 4

create_demo_patients ==
    << [id |-> "PATIENT-001", age |-> 45, gender |-> "M",
        chief_complaint |-> "Chest Pain", triage_level |-> "Critical",
        vitals |-> VitalSigns(<<180, 120>>, 45, 89, 372),
        location |-> "Sheikh Zayed Road, near DIFC Metro Station",
        eta_minutes |-> 7, ambulance_id |-> "AMB-DXB-047",
        paramedic |-> "Hassan Al-Rashid", notes |-> <<>>,
        timestamp |-> StartClock],
       [id |-> "PATIENT-002", age |-> 28, gender |-> "F",
        chief_complaint |-> "Motor Vehicle Accident", triage_level |-> "High",
        vitals |-> VitalSigns(<<140, 85>>, 95, 96, 368),
        location |-> "Al Khaleej Road, near Dubai Mall",
        eta_minutes |-> 12, ambulance_id |-> "AMB-DXB-112",
        paramedic |-> "Fatima Al-Zahra", notes |-> <<>>,
        timestamp |-> StartClock],
       [id |-> "PATIENT-003", age |-> 8, gender |-> "M",
        chief_complaint |-> "Respiratory Distress", triage_level |-> "Medium",
        vitals |-> VitalSigns(<<110, 70>>, 125, 91, 385),
        location |-> "Jumeirah Beach Road, near Jumeirah Beach",
        eta_minutes |-> 18, ambulance_id |-> "AMB-DXB-093",
        paramedic |-> "John Mitchell", notes |-> <<>>,
        timestamp |-> StartClock],
       [id |-> "PATIENT-004", age |-> 35, gender |-> "F",
        chief_complaint |-> "Minor Laceration", triage_level |-> "Low",
        vitals |-> VitalSigns(<<120, 80>>, 72, 99, 365),
        location |-> "Dubai Hospital - Triage Room 3",
        eta_minutes |-> NoneValue, ambulance_id |-> NoneValue,
        paramedic |-> NoneValue, notes |-> <<>>,
        timestamp |-> StartClock] >>

create_demo_hospitals ==
    << [name |-> "Dubai Hospital", available_beds |-> 3, total_beds |-> 25,
        distance_minutes |-> 12,
        specialties |-> <<"Emergency Medicine", "Cardiology">>],
       [name |-> "Rashid Hospital", available_beds |-> 0, total_beds |-> 30,
        distance_minutes |-> 8,
        specialties |-> <<"Trauma Surgery", "Neurology">>],
       [name |-> "American Hospital", available_beds |-> 2, total_beds |-> 20,
        distance_minutes |-> 15,
        specialties |-> <<"General Medicine", "Pediatrics">>],
       [name |-> "NMC Healthcare", available_beds |-> 1, total_beds |-> 18,
        distance_minutes |-> 20,
        specialties |-> <<"Orthopedics", "Cardiology">>] >>

create_demo_specialists ==
    << [name |-> "Dr. Sarah Johnson", specialty |-> "Cardiology",
        available |-> TRUE, on_call |-> FALSE],
       [name |-> "Dr. Mohammad Khalil", specialty |-> "Neurology",
        available |-> FALSE, on_call |-> TRUE],
       [name |-> "Dr. Lisa Chen", specialty |-> "Trauma Surgery",
        available |-> TRUE, on_call |-> FALSE],
       [name |-> "Dr. Ahmed Rashid", specialty |-> "Orthopedics",
        available |-> FALSE, on_call |-> FALSE],
       [name |-> "Dr. Fatima Al-Zahra", specialty |-> "Pediatrics",
        available |-> TRUE, on_call |-> FALSE] >>

\* Uuid::new_v4(): 122 random bits.  A draw returns a value that no earlier
\* draw returned; the draw number n stands for it
new_v4(n) == n

\* the four seed messages; a seed text is written as a sequence of one
\* element, its whole text
create_demo_messages ==
    << [id |-> new_v4(1), sender |-> "Ambulance AMB-047",
        message |-> <<"Patient showing signs of cardiac arrest. Administered epinephrine. Need cardiologist on standby.">>,
        timestamp |-> StartClock - 1, urgent |-> TRUE],
       [id |-> new_v4(2), sender |-> "Dr. Sarah Johnson",
        message |-> <<"En route to hospital. ETA 3 minutes. Preparing cath lab.">>,
        timestamp |-> StartClock - 2, urgent |-> FALSE],
       [id |-> new_v4(3), sender |-> "ER Nurse Station",
        message |-> <<"Trauma Bay 1 is ready. Blood bank notified for O-negative units.">>,
        timestamp |-> StartClock - 3, urgent |-> FALSE],
       [id |-> new_v4(4), sender |-> "Ambulance AMB-112",
        message |-> <<"MVA patient stable but requesting Arabic-speaking physician for family communication.">>,
        timestamp |-> StartClock - 4, urgent |-> TRUE] >>

\* impl Default for EmergencyApp
Default ==
    /\ patients = create_demo_patients
    /\ hospitals = create_demo_hospitals
    /\ specialists = create_demo_specialists
    /\ chat_messages = create_demo_messages
    /\ active_tab = 0
    /\ chat_input = <<>>
    /\ selected_patient = NoneValue
    /\ ambulance_available = 12
    /\ ambulance_en_route = 8
    /\ ambulance_at_scene = 3

NoScreen == [label |-> "", cards |-> <<>>]

NoStatus == [bp |-> NoCall, hr |-> NoCall, o2 |-> NoCall]

---------------------------------------------------------------------------
(* Drawing the central panel. *)

\* the classifier calls render_patient_card makes for one patient
card_calls(patient, after_send) ==
    {Call("bp_status", patient.vitals, bp_status(patient.vitals), after_send),
     Call("hr_status", patient.vitals, hr_status(patient.vitals), after_send),
     Call("o2_status", patient.vitals, o2_status(patient.vitals), after_send)}

\* the card of one patient: the triage badge and the three coloured vitals
render_patient_card(patient, index) ==
    [grid |-> index,
     id |-> patient.id,
     triage_color |-> color(patient.triage_level),
     triage_text |-> text(patient.triage_level),
     bp |-> bp_status(patient.vitals),
     bp_color |-> color(bp_status(patient.vitals)),
     hr |-> hr_status(patient.vitals),
     hr_color |-> color(hr_status(patient.vitals)),
     o2 |-> o2_status(patient.vitals),
     o2_color |-> color(o2_status(patient.vitals))]

render_active_emergencies ==
    [label |-> "",
     cards |-> [i \in 1..Len(patients) |->
                    render_patient_card(patients[i], i - 1)]]

render_incoming_patients ==
    [label |-> "Incoming Patients Dashboard - To be implemented", cards |-> <<>>]

render_hospital_status ==
    [label |-> "Hospital Status Dashboard - To be implemented", cards |-> <<>>]

render_analytics ==
    [label |-> "Analytics Dashboard - To be implemented", cards |-> <<>>]

\* the match on active_tab that ends render_main_content
render_main_content(tab) ==
    CASE tab = 0 -> render_active_emergencies
      [] tab = 1 -> render_incoming_patients
      [] tab = 2 -> render_hospital_status
      [] tab = 3 -> render_analytics
      [] OTHER -> NoScreen

\* the classifier calls of one frame that shows tab
frame_calls(tab, after_send) ==
    IF tab = 0
    THEN UNION {card_calls(patients[i], after_send) : i \in 1..Len(patients)}
    ELSE {}

\* the end of every frame: the central panel is drawn for the tab now active,
\* after the chat panel has handled its input
Draw(tab) ==
    /\ screen' = render_main_content(tab)
    /\ call_log' = call_log \cup
           frame_calls(tab, Len(chat_messages') > Len(create_demo_messages))

---------------------------------------------------------------------------
(* update(): one frame, with at most one input event. *)

NotApp == UNCHANGED <<vitals, status, callers>>

\* a frame with no input
Redraw ==
    /\ UNCHANGED <<app_vars, clock>>
    /\ NotApp
    /\ Draw(active_tab)

\* the TextEdit of the chat panel receives a character
TypeChar(c) ==
    /\ Len(chat_input) < MaxInputLen
    /\ chat_input' = Append(chat_input, c)
    /\ UNCHANGED <<patients, hospitals, specialists, chat_messages, active_tab,
                   selected_patient, ambulance_available, ambulance_en_route,
                   ambulance_at_scene, clock>>
    /\ NotApp
    /\ Draw(active_tab)

\* the TextEdit of the chat panel receives a backspace
Backspace ==
    /\ chat_input # <<>>
    /\ chat_input' = SubSeq(chat_input, 1, Len(chat_input) - 1)
    /\ UNCHANGED <<patients, hospitals, specialists, chat_messages, active_tab,
                   selected_patient, ambulance_available, ambulance_en_route,
                   ambulance_at_scene, clock>>
    /\ NotApp
    /\ Draw(active_tab)

\* the number of messages sent since startup
Sent == Len(chat_messages) - Len(create_demo_messages)

\* a Send handler that differs from ClickSend in when it accepts the input,
\* in the text and the place of the message it adds, and in what it leaves
\* in the input it refuses
ClickSendLike(accepts, message, list_after(_), refused_input) ==
    /\ ~accepts \/ Sent < MaxSent
    /\ IF accepts
       THEN \E now \in {StartClock + m : m \in Minutes} :
                /\ now >= clock
                /\ chat_messages' =
                       list_after([id |-> new_v4(Len(chat_messages) + 1),
                                   sender |-> "Dr. Ahmed Al-Mansoori",
                                   message |-> message,
                                   timestamp |-> now,
                                   urgent |-> FALSE])
                /\ chat_input' = <<>>
                /\ clock' = now
       ELSE /\ chat_input' = refused_input
            /\ UNCHANGED <<chat_messages, clock>>
    /\ UNCHANGED <<patients, hospitals, specialists, active_tab,
                   selected_patient, ambulance_available, ambulance_en_route,
                   ambulance_at_scene>>
    /\ NotApp
    /\ screen' = render_main_content(active_tab)
    /\ call_log' = call_log \cup
           frame_calls(active_tab,
                       Len(chat_messages') > Len(create_demo_messages))

\* ClickSend inserting the new message at the front of the list
ClickSend_insert_front ==
    ClickSendLike(~is_empty(trim(chat_input)), chat_input,
                  LAMBDA m : <<m>> \o chat_messages, chat_input)

\* ClickSend storing the trimmed input
ClickSend_trimmed ==
    ClickSendLike(~is_empty(trim(chat_input)), trim(chat_input),
                  LAMBDA m : Append(chat_messages, m), chat_input)

\* ClickSend testing the input without trimming it
ClickSend_untrimmed_test ==
    ClickSendLike(~is_empty(chat_input), chat_input,
                  LAMBDA m : Append(chat_messages, m), chat_input)

\* the Send button of render_chat_panel is clicked
ClickSend ==
    /\ is_empty(trim(chat_input)) \/ Sent < MaxSent
    /\ IF ~is_empty(trim(chat_input))
       THEN \E now \in {StartClock + m : m \in Minutes} :
                /\ now >= clock
                /\ chat_messages' =
                       Append(chat_messages,
                              [id |-> new_v4(Len(chat_messages) + 1),
                               sender |-> "Dr. Ahmed Al-Mansoori",
                               message |-> chat_input,
                               timestamp |-> now,
                               urgent |-> FALSE])
                /\ chat_input' = <<>>
                /\ clock' = now
       ELSE UNCHANGED <<chat_messages, chat_input, clock>>
    /\ UNCHANGED <<patients, hospitals, specialists, active_tab,
                   selected_patient, ambulance_available, ambulance_en_route,
                   ambulance_at_scene>>
    /\ NotApp
    /\ Draw(active_tab)

\* ClickTab storing the one-based position of the tab
ClickTab_one_based(i) ==
    /\ active_tab' = i + 1
    /\ UNCHANGED <<patients, hospitals, specialists, chat_messages, chat_input,
                   selected_patient, ambulance_available, ambulance_en_route,
                   ambulance_at_scene, clock>>
    /\ NotApp
    /\ screen' = render_main_content(i + 1)
    /\ call_log' = call_log \cup
           frame_calls(i + 1, Len(chat_messages') > Len(create_demo_messages))

\* tab i of render_main_content is clicked
ClickTab(i) ==
    /\ active_tab' = i
    /\ UNCHANGED <<patients, hospitals, specialists, chat_messages, chat_input,
                   selected_patient, ambulance_available, ambulance_en_route,
                   ambulance_at_scene, clock>>
    /\ NotApp
    /\ Draw(i)

\* ClickCardButton with an Accept handler that takes the patient off the list
ClickCardButton_accepting(button, index) ==
    /\ active_tab = 0
    /\ index \in 0..(Len(patients) - 1)
    /\ button \in {"Accept", "Call Specialist", "Add Notes"}
    /\ patients' =
           IF button = "Accept"
           THEN SubSeq(patients, 1, index) \o
                SubSeq(patients, index + 2, Len(patients))
           ELSE patients
    /\ UNCHANGED <<hospitals, specialists, chat_messages, active_tab,
                   chat_input, selected_patient, ambulance_available,
                   ambulance_en_route, ambulance_at_scene, clock>>
    /\ NotApp
    /\ screen' = render_main_content(active_tab)
    /\ call_log' = call_log \cup
           frame_calls(active_tab,
                       Len(chat_messages') > Len(create_demo_messages))

\* ClickCardButton whose Add Notes handler pushes a note to the patient
ClickCardButton_noting(button, index) ==
    /\ active_tab = 0
    /\ index \in 0..(Len(patients) - 1)
    /\ button \in {"Accept", "Call Specialist", "Add Notes"}
    /\ patients' =
           IF button = "Add Notes" /\ patients[index + 1].notes = <<>>
           THEN [patients EXCEPT ![index + 1].notes = <<"note">>]
           ELSE patients
    /\ UNCHANGED <<hospitals, specialists, chat_messages, active_tab,
                   chat_input, selected_patient, ambulance_available,
                   ambulance_en_route, ambulance_at_scene, clock>>
    /\ NotApp
    /\ screen' = render_main_content(active_tab)
    /\ call_log' = call_log \cup
           frame_calls(active_tab,
                       Len(chat_messages') > Len(create_demo_messages))

\* a button of the card of patient index is clicked: the three handlers are empty
ClickCardButton(button, index) ==
    /\ active_tab = 0
    /\ index \in 0..(Len(patients) - 1)
    /\ button \in {"Accept", "Call Specialist", "Add Notes"}
    /\ UNCHANGED <<app_vars, clock>>
    /\ NotApp
    /\ Draw(active_tab)

---------------------------------------------------------------------------
(* The specifications. *)

Init ==
    /\ Default
    /\ clock = StartClock
    /\ screen = NoScreen
    /\ call_log = {}
    /\ vitals = NoneValue
    /\ status = NoStatus
    /\ callers = <<>>

Next ==
    \/ Redraw
    \/ \E c \in Alphabet : TypeChar(c)
    \/ Backspace
    \/ ClickSend
    \/ \E i \in 0..3 : ClickTab(i)
    \/ \E b \in {"Accept", "Call Specialist", "Add Notes"}, i \in 0..3 :
           ClickCardButton(b, i)

Spec == Init /\ [][Next]_vars

\* no application is constructed: a caller holds one VitalSigns value
InitClassifier ==
    /\ patients = <<>>
    /\ hospitals = <<>>
    /\ specialists = <<>>
    /\ chat_messages = <<>>
    /\ active_tab = 0
    /\ chat_input = <<>>
    /\ selected_patient = NoneValue
    /\ ambulance_available = 0
    /\ ambulance_en_route = 0
    /\ ambulance_at_scene = 0
    /\ clock = StartClock
    /\ screen = NoScreen
    /\ call_log = {}
    /\ vitals \in VitalSignsInputs
    /\ status = NoStatus
    /\ callers = <<>>

NextClassifier ==
    \/ call_bp_status
    \/ call_hr_status
    \/ call_o2_status

SpecClassifier == InitClassifier /\ [][NextClassifier]_vars

---------------------------------------------------------------------------
(* A caller that classifies one VitalSigns value and then a second one, as
   the loop of render_active_emergencies does for consecutive patients
   (SpecPair). *)

\* the values of the two records: the three bands of every category
PairInputs ==
    {VitalSigns(<<s, d>>, r, o, t) :
        s \in {140, 150, 181}, d \in {90, 121}, r \in {45, 55, 72, 110, 125},
        o \in {89, 91, 99}, t \in TemperatureInputs}

\* the caller, having classified its first value, constructs a second one
construct(v) ==
    /\ status.bp # NoCall /\ status.hr # NoCall /\ status.o2 # NoCall
    /\ \A c \in call_log : c.receiver = vitals
    /\ v # vitals
    /\ vitals' = v
    /\ status' = NoStatus
    /\ UNCHANGED <<app_vars, clock, screen, call_log, callers>>

InitPair ==
    /\ patients = <<>>
    /\ hospitals = <<>>
    /\ specialists = <<>>
    /\ chat_messages = <<>>
    /\ active_tab = 0
    /\ chat_input = <<>>
    /\ selected_patient = NoneValue
    /\ ambulance_available = 0
    /\ ambulance_en_route = 0
    /\ ambulance_at_scene = 0
    /\ clock = StartClock
    /\ screen = NoScreen
    /\ call_log = {}
    /\ vitals \in PairInputs
    /\ status = NoStatus
    /\ callers = <<>>

NextPair ==
    \/ call_bp_status
    \/ call_hr_status
    \/ call_o2_status
    \/ \E v \in PairInputs : construct(v)

SpecPair == InitPair /\ [][NextPair]_vars

---------------------------------------------------------------------------
(* Callers that share one VitalSigns value by reference (&self) and run
   their calls one branch at a time, in any interleaving (SpecConcurrent).
   A call has no local variables: its frame is the function, the receiver
   and the branch it has reached. *)

NumCallers == 2

Callers == 1 .. NumCallers

\* the value the callers share
ConcurrentInputs ==
    {VitalSigns(<<s, 90>>, r, o, 365) :
        s \in {140, 150, 181}, r \in {45, 55, 72}, o \in {89, 91, 99}}

Classifiers == {"bp_status", "hr_status", "o2_status"}

\* a caller that has made no call yet
NoFrame ==
    [pc |-> "idle", fn |-> NoCall, self |-> NoneValue, result |-> NoCall,
     overlapped |-> FALSE]

\* the condition of the if of classifier fn
critical(fn, self) ==
    CASE fn = "bp_status" -> bp_critical(self)
      [] fn = "hr_status" -> hr_critical(self)
      [] fn = "o2_status" -> o2_critical(self)

\* the condition of the else if of classifier fn
high(fn, self) ==
    CASE fn = "bp_status" -> bp_high(self)
      [] fn = "hr_status" -> hr_high(self)
      [] fn = "o2_status" -> o2_high(self)

\* classifier fn called on self with no other call in progress
call(fn, self) ==
    CASE fn = "bp_status" -> bp_status(self)
      [] fn = "hr_status" -> hr_status(self)
      [] fn = "o2_status" -> o2_status(self)

\* caller c calls classifier fn on the shared value; overlapped records
\* that another call was in progress at some point of this one
enter(c, fn) ==
    /\ callers[c].pc = "idle"
    /\ callers' =
           [k \in Callers |->
               IF k = c
               THEN [pc |-> "if", fn |-> fn, self |-> vitals,
                     result |-> NoCall,
                     overlapped |-> \E o \in Callers \ {c} :
                                        callers[o].pc # "idle"]
               ELSE IF callers[k].pc # "idle"
                    THEN [callers[k] EXCEPT !.overlapped = TRUE]
                    ELSE callers[k]]
    /\ UNCHANGED <<app_vars, clock, screen, call_log, vitals, status>>

\* the call of caller c returns level
return(c, level) ==
    /\ callers' = [callers EXCEPT ![c].pc = "idle", ![c].result = level]
    /\ call_log' = call_log \cup
                       {Call(callers[c].fn, vitals, level, FALSE)}

\* branch_if that, on returning Critical, also resets the shared value to
\* the readings of a stable patient
branch_if_clearing(c) ==
    /\ callers[c].pc = "if"
    /\ IF critical(callers[c].fn, vitals)
       THEN /\ return(c, "Critical")
            /\ vitals' = VitalSigns(<<120, 80>>, 72, 99, 365)
       ELSE /\ callers' = [callers EXCEPT ![c].pc = "else_if"]
            /\ UNCHANGED <<call_log, vitals>>
    /\ UNCHANGED <<app_vars, clock, screen, status>>

\* the call of caller c evaluates the condition of its if
branch_if(c) ==
    /\ callers[c].pc = "if"
    /\ IF critical(callers[c].fn, vitals)
       THEN return(c, "Critical")
       ELSE /\ callers' = [callers EXCEPT ![c].pc = "else_if"]
            /\ UNCHANGED call_log
    /\ UNCHANGED <<app_vars, clock, screen, vitals, status>>

\* the call of caller c evaluates the condition of its else if
branch_else_if(c) ==
    /\ callers[c].pc = "else_if"
    /\ IF high(callers[c].fn, vitals)
       THEN return(c, "High")
       ELSE return(c, "Low")
    /\ UNCHANGED <<app_vars, clock, screen, vitals, status>>

InitConcurrent ==
    /\ patients = <<>>
    /\ hospitals = <<>>
    /\ specialists = <<>>
    /\ chat_messages = <<>>
    /\ active_tab = 0
    /\ chat_input = <<>>
    /\ selected_patient = NoneValue
    /\ ambulance_available = 0
    /\ ambulance_en_route = 0
    /\ ambulance_at_scene = 0
    /\ clock = StartClock
    /\ screen = NoScreen
    /\ call_log = {}
    /\ vitals \in ConcurrentInputs
    /\ status = NoStatus
    /\ callers = [c \in Callers |-> NoFrame]

NextConcurrent ==
    \/ \E c \in Callers : \E fn \in Classifiers : enter(c, fn)
    \/ \E c \in Callers : branch_if(c)
    \/ \E c \in Callers : branch_else_if(c)

SpecConcurrent == InitConcurrent /\ [][NextConcurrent]_vars

---------------------------------------------------------------------------
(* The classifiers on arbitrary inputs (SpecClassifier). *)

\* the readings the caller holds
S == vitals.blood_pressure[1]
D == vitals.blood_pressure[2]
R == vitals.heart_rate
O == vitals.oxygen_saturation

\* C1: whenever bp_status has been called on (S, D), its result is Critical
\* exactly if S > 180 or D > 120, High exactly if that fails and S > 140 or
\* D > 90, and Low exactly if S <= 140 and D <= 90; the comparisons are
\* strict: (181,0) and (0,121) are Critical, (150,80) and (120,95) are High.
C1_BpThresholds ==
    status.bp # NoCall =>
        /\ (status.bp = "Critical") <=> (S > 180 \/ D > 120)
        /\ (status.bp = "High") <=>
               (~(S > 180 \/ D > 120) /\ (S > 140 \/ D > 90))
        /\ (status.bp = "Low") <=> (S <= 140 /\ D <= 90)
        /\ (<<S, D>> \in {<<181, 0>>, <<0, 121>>} => status.bp = "Critical")
        /\ (<<S, D>> \in {<<150, 80>>, <<120, 95>>} => status.bp = "High")
        /\ (<<S, D>> \in {<<180, 120>>, <<180, 0>>, <<0, 120>>}
                => status.bp = "High")

\* bp_status has answered High on the boundary (180, 120)
C1_Witness ==
    /\ vitals.blood_pressure = <<180, 120>>
    /\ status.bp = "High"

\* C2: whenever hr_status has been called on R, its result is Critical
\* exactly if R < 50 or R > 120, High exactly if R is in 50..59 or 101..120,
\* and Low exactly if R is in 60..100; a negative rate is Critical.
C2_HrThresholds ==
    status.hr # NoCall =>
        /\ (status.hr = "Critical") <=> (R < 50 \/ R > 120)
        /\ (status.hr = "High") <=> (R \in 50..59 \/ R \in 101..120)
        /\ (status.hr = "Low") <=> (R \in 60..100)
        /\ (R \in {45, 125} => status.hr = "Critical")
        /\ (R \in {55, 110} => status.hr = "High")
        /\ (R = 72 => status.hr = "Low")
        /\ (R < 0 => status.hr = "Critical")

\* hr_status has answered High on the boundary 120
C2_Witness ==
    /\ vitals.heart_rate = 120
    /\ status.hr = "High"

\* C3: whenever o2_status has been called on O, its result is Critical
\* exactly if O < 90, High exactly if O is in 90..94, and Low exactly if
\* O >= 95; so 90 is High, 95 is Low and a value above 100 is Low.
C3_O2Thresholds ==
    status.o2 # NoCall =>
        /\ (status.o2 = "Critical") <=> (O < 90)
        /\ (status.o2 = "High") <=> (O \in 90..94)
        /\ (status.o2 = "Low") <=> (O >= 95)
        /\ (O = 89 => status.o2 = "Critical")
        /\ (O \in {90, 91} => status.o2 = "High")
        /\ (O \in {95, 99} => status.o2 = "Low")
        /\ (O > 100 => status.o2 = "Low")

\* o2_status has answered High on the boundary 90
C3_Witness ==
    /\ vitals.oxygen_saturation = 90
    /\ status.o2 = "High"

\* C4: no call of bp_status, hr_status or o2_status has returned Medium:
\* every result is one of Low, High, Critical.
C4_NeverMedium ==
    /\ \A c \in call_log : c.result # "Medium"
    /\ \A c \in call_log : c.result \in {"Low", "High", "Critical"}
    /\ status.bp \in {NoCall, "Low", "High", "Critical"}
    /\ status.hr \in {NoCall, "Low", "High", "Critical"}
    /\ status.o2 \in {NoCall, "Low", "High", "Critical"}

\* the three classifiers have been called on readings between the High and
\* the Low band
C4_Witness ==
    /\ vitals.blood_pressure = <<141, 91>>
    /\ vitals.heart_rate = 101
    /\ vitals.oxygen_saturation = 94
    /\ status.bp # NoCall
    /\ status.hr # NoCall
    /\ status.o2 # NoCall
    /\ Cardinality(call_log) = 3

\* C6: whenever bp_status has been called on (S, D) with S <= 180, D <= 120
\* and neither S > 140 nor D > 90, its result is Low; this includes the
\* boundary (140, 90), zero and negative readings.
C6_BpLowBand ==
    (status.bp # NoCall /\ S <= 180 /\ D <= 120 /\ ~(S > 140) /\ ~(D > 90))
        => status.bp = "Low"

\* bp_status has answered Low on the boundary (140, 90)
C6_Witness ==
    /\ vitals.blood_pressure = <<140, 90>>
    /\ status.bp = "Low"

\* C8: each classifier is total: on every input, the ends of i32, negative
\* rates and a saturation above 100 included, the call can be made, and
\* every call made has returned a member of TriageLevel.
C8_Total ==
    /\ ENABLED call_bp_status
    /\ ENABLED call_hr_status
    /\ ENABLED call_o2_status
    /\ status.bp # NoCall => status.bp \in TriageLevel
    /\ status.hr # NoCall => status.hr \in TriageLevel
    /\ status.o2 # NoCall => status.o2 \in TriageLevel
    /\ \A c \in call_log : c.result \in TriageLevel

\* the three classifiers have answered on a negative pressure, a negative
\* rate and a saturation above 100
C8_Witness ==
    /\ vitals.blood_pressure = <<I32Min, I32Min>>
    /\ vitals.heart_rate = -1
    /\ vitals.oxygen_saturation = 101
    /\ status.bp \in TriageLevel
    /\ status.hr \in TriageLevel
    /\ status.o2 \in TriageLevel

\* C10 as stated: in each classifier at most one of the two written
\* conditions holds on the input of a call, so testing the High condition
\* first would give the result of the call.
C10_Original ==
    /\ status.bp # NoCall =>
           /\ ~(bp_critical(vitals) /\ bp_high(vitals))
           /\ status.bp = (IF bp_high(vitals) THEN "High"
                           ELSE IF bp_critical(vitals) THEN "Critical"
                           ELSE "Low")
    /\ status.hr # NoCall =>
           /\ ~(hr_critical(vitals) /\ hr_high(vitals))
           /\ status.hr = (IF hr_high(vitals) THEN "High"
                           ELSE IF hr_critical(vitals) THEN "Critical"
                           ELSE "Low")
    /\ status.o2 # NoCall =>
           /\ ~(o2_critical(vitals) /\ o2_high(vitals))
           /\ status.o2 = (IF o2_high(vitals) THEN "High"
                           ELSE IF o2_critical(vitals) THEN "Critical"
                           ELSE "Low")

\* C10, amended: in each classifier the two written conditions are nested:
\* an input that meets the Critical condition meets the High condition too.
\* The result of a call is Critical exactly if the Critical condition holds,
\* High exactly if the High condition holds and the Critical one does not,
\* and Low exactly if neither holds.
C10_Nested ==
    /\ status.bp # NoCall =>
           /\ bp_critical(vitals) => bp_high(vitals)
           /\ (status.bp = "Critical") <=> bp_critical(vitals)
           /\ (status.bp = "High") <=> (bp_high(vitals) /\ ~bp_critical(vitals))
           /\ (status.bp = "Low") <=> (~bp_high(vitals) /\ ~bp_critical(vitals))
    /\ status.hr # NoCall =>
           /\ hr_critical(vitals) => hr_high(vitals)
           /\ (status.hr = "Critical") <=> hr_critical(vitals)
           /\ (status.hr = "High") <=> (hr_high(vitals) /\ ~hr_critical(vitals))
           /\ (status.hr = "Low") <=> (~hr_high(vitals) /\ ~hr_critical(vitals))
    /\ status.o2 # NoCall =>
           /\ o2_critical(vitals) => o2_high(vitals)
           /\ (status.o2 = "Critical") <=> o2_critical(vitals)
           /\ (status.o2 = "High") <=> (o2_high(vitals) /\ ~o2_critical(vitals))
           /\ (status.o2 = "Low") <=> (~o2_high(vitals) /\ ~o2_critical(vitals))

\* the three classifiers have answered Critical on an input that meets both
\* written conditions of each
C10_Witness ==
    /\ vitals.blood_pressure = <<181, 0>>
    /\ vitals.heart_rate = 45
    /\ vitals.oxygen_saturation = 89
    /\ bp_critical(vitals) /\ bp_high(vitals) /\ status.bp = "Critical"
    /\ hr_critical(vitals) /\ hr_high(vitals) /\ status.hr = "Critical"
    /\ o2_critical(vitals) /\ o2_high(vitals) /\ status.o2 = "Critical"

---------------------------------------------------------------------------
(* The classifiers on the demo patients (Spec). *)

\* the cards the last frame drew
cards == screen.cards

\* C5 as stated: the card of the first demo patient, whose vitals are
\* (180,120), 45 and 89, shows BP Critical, HR Critical and O2 Critical.
C5_Original ==
    (/\ cards # <<>>
     /\ patients[1].vitals.blood_pressure = <<180, 120>>
     /\ patients[1].vitals.heart_rate = 45
     /\ patients[1].vitals.oxygen_saturation = 89)
        => /\ cards[1].bp = "Critical"
           /\ cards[1].hr = "Critical"
           /\ cards[1].o2 = "Critical"

\* C5, amended: the card of the first demo patient, whose vitals are
\* (180,120), 45 and 89, shows BP High (180 > 180 and 120 > 120 are false),
\* HR Critical and O2 Critical.
C5_FirstPatient ==
    (/\ cards # <<>>
     /\ patients[1].vitals.blood_pressure = <<180, 120>>
     /\ patients[1].vitals.heart_rate = 45
     /\ patients[1].vitals.oxygen_saturation = 89)
        => /\ cards[1].bp = "High"
           /\ cards[1].hr = "Critical"
           /\ cards[1].o2 = "Critical"
           /\ cards[1].bp_color = color("High")
           /\ cards[1].hr_color = color("Critical")
           /\ cards[1].o2_color = color("Critical")

\* the card of the first demo patient has been drawn
C5_Witness ==
    /\ cards # <<>>
    /\ cards[1].id = "PATIENT-001"
    /\ patients[1].vitals = VitalSigns(<<180, 120>>, 45, 89, 372)
    /\ cards[1].bp = "High"

\* C7: the card of the fourth demo patient, whose vitals are (120,80), 72
\* and 99, shows BP Low, HR Low and O2 Low.
C7_FourthPatient ==
    (/\ cards # <<>>
     /\ patients[4].vitals.blood_pressure = <<120, 80>>
     /\ patients[4].vitals.heart_rate = 72
     /\ patients[4].vitals.oxygen_saturation = 99)
        => /\ cards[4].bp = "Low"
           /\ cards[4].hr = "Low"
           /\ cards[4].o2 = "Low"
           /\ cards[4].bp_color = color("Low")
           /\ cards[4].hr_color = color("Low")
           /\ cards[4].o2_color = color("Low")

\* the card of the fourth demo patient has been drawn
C7_Witness ==
    /\ cards # <<>>
    /\ cards[4].id = "PATIENT-004"
    /\ patients[4].vitals = VitalSigns(<<120, 80>>, 72, 99, 365)
    /\ cards[4].o2 = "Low"

---------------------------------------------------------------------------
(* The application state across frames (Spec). *)

\* C11: in every step the chat list before the step is a prefix of the chat
\* list after it (no message is removed, reordered or changed in any field),
\* and the four seed messages are its first four entries.
C11_AppendOnly ==
    [][/\ Len(chat_messages') >= Len(chat_messages)
       /\ SubSeq(chat_messages', 1, Len(chat_messages)) = chat_messages
       /\ SubSeq(chat_messages', 1, 4) = create_demo_messages]_vars

\* a message has been sent and stands after the four seed messages
C11_Witness ==
    /\ Len(chat_messages) = 5
    /\ SubSeq(chat_messages, 1, 4) = create_demo_messages
    /\ chat_messages[5].sender = "Dr. Ahmed Al-Mansoori"
    /\ chat_messages[5].timestamp >= StartClock

\* C12: in every reachable state the patient, hospital and specialist lists
\* hold exactly the seed records: 4 patients, 4 hospitals, 5 specialists,
\* each with its identifier, vitals, triage level, bed counts and
\* availability flags as seeded.
C12_StaticCollections ==
    /\ Len(patients) = 4 /\ Len(hospitals) = 4 /\ Len(specialists) = 5
    /\ patients = create_demo_patients
    /\ hospitals = create_demo_hospitals
    /\ specialists = create_demo_specialists
    /\ [i \in 1..4 |-> patients[i].id] =
           <<"PATIENT-001", "PATIENT-002", "PATIENT-003", "PATIENT-004">>
    /\ [i \in 1..4 |-> patients[i].triage_level] =
           <<"Critical", "High", "Medium", "Low">>
    /\ [i \in 1..4 |-> patients[i].vitals.blood_pressure] =
           << <<180, 120>>, <<140, 85>>, <<110, 70>>, <<120, 80>> >>
    /\ [i \in 1..4 |-> patients[i].vitals.heart_rate] = <<45, 95, 125, 72>>
    /\ [i \in 1..4 |-> patients[i].vitals.oxygen_saturation] =
           <<89, 96, 91, 99>>
    /\ [i \in 1..4 |-> <<hospitals[i].available_beds, hospitals[i].total_beds>>]
           = << <<3, 25>>, <<0, 30>>, <<2, 20>>, <<1, 18>> >>
    /\ [i \in 1..5 |-> <<specialists[i].available, specialists[i].on_call>>]
           = << <<TRUE, FALSE>>, <<FALSE, TRUE>>, <<TRUE, FALSE>>,
                <<FALSE, FALSE>>, <<TRUE, FALSE>> >>

\* the cards are on screen after typing, a Send and tab clicks, and the
\* lists still have 4, 4 and 5 records
C12_Witness ==
    /\ Sent = 1
    /\ chat_input # <<>>
    /\ active_tab = 0
    /\ Len(cards) = 4
    /\ Len(patients) = 4 /\ Len(hospitals) = 4 /\ Len(specialists) = 5
    /\ \A i \in 1..4 : \A after \in BOOLEAN :
           \E c \in call_log :
               c.receiver = patients[i].vitals /\ c.after_send = after

\* C13: the stored triage level is not derived from the vitals: in every
\* reachable state, the startup state included, there is a patient whose
\* stored triage level is High while the classifiers return Low, Low and Low
\* on his vitals, and whenever the cards are drawn his card shows the badge
\* HIGH over three Low vitals; so the stored level is not the maximum of the
\* three category levels.
C13_TriageNotDerived ==
    /\ \E i \in 1..Len(patients) :
           /\ patients[i].triage_level = "High"
           /\ \A c \in call_log :
                  c.receiver = patients[i].vitals => c.result = "Low"
           /\ cards # <<>> =>
                  /\ cards[i].triage_text = "HIGH"
                  /\ cards[i].bp = "Low"
                  /\ cards[i].hr = "Low"
                  /\ cards[i].o2 = "Low"
    /\ cards # <<>> =>
           \E i \in 1..Len(cards) :
               cards[i].triage_text \notin
                   {text(cards[i].bp), text(cards[i].hr), text(cards[i].o2)}

\* the card of the second demo patient has been drawn: badge HIGH, vitals
\* (140,85), 95, 96 all Low
C13_Witness ==
    /\ cards # <<>>
    /\ cards[2].id = "PATIENT-002"
    /\ patients[2].vitals = VitalSigns(<<140, 85>>, 95, 96, 368)
    /\ cards[2].triage_text = "HIGH"
    /\ cards[2].bp = "Low" /\ cards[2].hr = "Low" /\ cards[2].o2 = "Low"

\* C16: whatever is drawn for a level is its fixed label and colour:
\* Critical "CRITICAL" (231,76,60), High "HIGH" (243,156,18), Medium
\* "MEDIUM" (241,196,15), Low "LOW" (46,204,113); two cards whose patients
\* have different levels share neither the label nor the colour.
C16_DisplayMapping ==
    LET label == [l \in TriageLevel |->
                    CASE l = "Critical" -> "CRITICAL"
                      [] l = "High" -> "HIGH"
                      [] l = "Medium" -> "MEDIUM"
                      [] l = "Low" -> "LOW"]
        rgb == [l \in TriageLevel |->
                    CASE l = "Critical" -> <<231, 76, 60>>
                      [] l = "High" -> <<243, 156, 18>>
                      [] l = "Medium" -> <<241, 196, 15>>
                      [] l = "Low" -> <<46, 204, 113>>]
    IN  /\ \A i \in 1..Len(cards) :
               /\ cards[i].triage_text = label[patients[i].triage_level]
               /\ cards[i].triage_color = rgb[patients[i].triage_level]
               /\ cards[i].bp_color = rgb[cards[i].bp]
               /\ cards[i].hr_color = rgb[cards[i].hr]
               /\ cards[i].o2_color = rgb[cards[i].o2]
        /\ \A i \in 1..Len(cards) : \A j \in 1..Len(cards) :
               patients[i].triage_level # patients[j].triage_level =>
                   /\ cards[i].triage_text # cards[j].triage_text
                   /\ cards[i].triage_color # cards[j].triage_color

\* cards of all four levels are on screen
C16_Witness ==
    /\ cards # <<>>
    /\ {patients[i].triage_level : i \in 1..Len(cards)} = TriageLevel
    /\ Cardinality({cards[i].triage_color : i \in 1..Len(cards)}) = 4

\* the input holds a character that is not whitespace
HasText(input) == \E k \in 1..Len(input) : input[k] # " "

\* C17: a click on Send while the input holds at least one character that is
\* not whitespace appends exactly one message: the list grows by 1, the old
\* list is kept, the new message has the sender "Dr. Ahmed Al-Mansoori", is
\* not urgent and carries the input as typed, not trimmed; the input is
\* empty afterwards and no other field of the application changes.
C17_SendAppends ==
    [][(ClickSend /\ HasText(chat_input)) =>
           /\ Len(chat_messages') = Len(chat_messages) + 1
           /\ SubSeq(chat_messages', 1, Len(chat_messages)) = chat_messages
           /\ chat_messages'[Len(chat_messages')].sender =
                  "Dr. Ahmed Al-Mansoori"
           /\ chat_messages'[Len(chat_messages')].urgent = FALSE
           /\ chat_messages'[Len(chat_messages')].message = chat_input
           /\ chat_input' = <<>>
           /\ UNCHANGED <<patients, hospitals, specialists, active_tab,
                          selected_patient, ambulance_available,
                          ambulance_en_route, ambulance_at_scene>>]_vars

\* a message typed with a leading space has been sent and is stored with it
C17_Witness ==
    /\ Len(chat_messages) = 5
    /\ chat_messages[5].message = <<" ", "a">>
    /\ chat_messages[5].sender = "Dr. Ahmed Al-Mansoori"
    /\ chat_messages[5].urgent = FALSE
    /\ chat_input = <<>>

\* C18: a click on Send while the input is empty or all whitespace changes
\* nothing: no message is appended, the input keeps its content, and every
\* other field of the application is unchanged.
C18_BlankSendNoOp ==
    [][(ClickSend /\ ~HasText(chat_input)) =>
           /\ chat_messages' = chat_messages
           /\ chat_input' = chat_input
           /\ UNCHANGED app_vars]_vars

\* the input is two spaces and a click on Send leaves it and the list alone
C18_Witness ==
    /\ chat_input = <<" ", " ">>
    /\ ENABLED (/\ ClickSend
                /\ chat_input' = <<" ", " ">>
                /\ chat_messages' = chat_messages)

\* C20: active_tab is 0 at startup and in 0..3 in every reachable state; a
\* click on tab i sets active_tab to i and leaves the chat list, the chat
\* input, the patients, hospitals, specialists and ambulance counters
\* unchanged.
C20_ActiveTab ==
    /\ active_tab = 0
    /\ [](active_tab \in 0..3)
    /\ [][\A i \in 0..3 :
             ClickTab(i) =>
                /\ active_tab' = i
                /\ UNCHANGED <<chat_messages, chat_input, patients,
                               hospitals, specialists, ambulance_available,
                               ambulance_en_route, ambulance_at_scene>>]_vars

\* the last tab is shown, a message has been sent and the input holds text
C20_Witness ==
    /\ active_tab = 3
    /\ screen = render_analytics
    /\ Sent = 1
    /\ chat_input = <<"a">>

\* C21: a frame with no input and a click on Accept, Call Specialist or
\* Add Notes of any patient card leave the whole application state
\* unchanged: the patients with their notes, the chat messages, the chat
\* input, the active tab, the selected patient and the ambulance counters,
\* which stay 12, 8 and 3; a step that changes any of them is a tab click,
\* a text entry or a Send.
C21_FrameEffect ==
    /\ [](/\ ambulance_available = 12
          /\ ambulance_en_route = 8
          /\ ambulance_at_scene = 3
          /\ selected_patient = NoneValue
          /\ \A i \in 1..Len(patients) : patients[i].notes = <<>>)
    /\ [][(\/ Redraw
           \/ \E b \in {"Accept", "Call Specialist", "Add Notes"} :
                  \E i \in 0..3 : ClickCardButton(b, i))
              => /\ patients' = patients
                 /\ chat_messages' = chat_messages
                 /\ chat_input' = chat_input
                 /\ active_tab' = active_tab
                 /\ selected_patient' = selected_patient
                 /\ ambulance_available' = ambulance_available
                 /\ ambulance_en_route' = ambulance_en_route
                 /\ ambulance_at_scene' = ambulance_at_scene
                 /\ hospitals' = hospitals
                 /\ specialists' = specialists]_vars
    /\ [][app_vars' # app_vars =>
              \/ \E i \in 0..3 : ClickTab(i) /\ active_tab' # active_tab
              \/ \E c \in Alphabet : TypeChar(c)
              \/ Backspace /\ chat_input' # chat_input
              \/ ClickSend /\ chat_messages' # chat_messages]_vars

\* the cards are drawn after a Send with text in the input box, and both a
\* redraw and a click on Add Notes of the last card can follow and keep the
\* application state
C21_Witness ==
    /\ active_tab = 0
    /\ Len(cards) = 4
    /\ Sent = 1
    /\ chat_input = <<"a", " ">>
    /\ \E c \in call_log : c.after_send
    /\ patients[4].notes = <<>>
    /\ ENABLED (Redraw /\ UNCHANGED app_vars)
    /\ ENABLED (ClickCardButton("Add Notes", 3) /\ UNCHANGED app_vars)

---------------------------------------------------------------------------
(* The classifiers on two records (SpecPair). *)

\* C14: the three categories are independent and the temperature is not
\* classified: two calls of bp_status on records with the same blood
\* pressure have returned the same level, two calls of hr_status on records
\* with the same heart rate likewise, and two calls of o2_status on records
\* with the same oxygen saturation likewise; so two records that differ
\* only in temperature have got the same three results.
C14_Independent ==
    \A a \in call_log : \A b \in call_log :
        a.fn = b.fn =>
            /\ (/\ a.fn = "bp_status"
                /\ a.receiver.blood_pressure = b.receiver.blood_pressure)
                   => a.result = b.result
            /\ (/\ a.fn = "hr_status"
                /\ a.receiver.heart_rate = b.receiver.heart_rate)
                   => a.result = b.result
            /\ (/\ a.fn = "o2_status"
                /\ a.receiver.oxygen_saturation = b.receiver.oxygen_saturation)
                   => a.result = b.result
            /\ [a.receiver EXCEPT !.temperature = b.receiver.temperature]
                   = b.receiver => a.result = b.result

\* the three classifiers have been called on two records that differ only
\* in temperature, one of them with a fever
C14_Witness ==
    /\ Cardinality(call_log) = 6
    /\ \E a \in call_log :
           /\ a.receiver # vitals
           /\ a.receiver.temperature # vitals.temperature
           /\ [a.receiver EXCEPT !.temperature = vitals.temperature] = vitals
    /\ vitals.oxygen_saturation = 99
    /\ vitals.temperature = 385
    /\ status.o2 = "Low"

\* C19: with Low < Medium < High < Critical, of two calls of bp_status the
\* one on the record with the higher or equal systolic and diastolic
\* readings has not returned the lower level; of two calls of o2_status the
\* one on the lower or equal saturation has not returned the lower level;
\* of two calls of hr_status on rates r1 >= r2 with r1 <= 100, or on rates
\* r1 <= r2 with r1 >= 60, the one on r2 has not returned the lower level.
C19_Monotone ==
    LET rank == [l \in TriageLevel |->
                    CASE l = "Low" -> 0
                      [] l = "Medium" -> 1
                      [] l = "High" -> 2
                      [] l = "Critical" -> 3]
    IN  \A a \in call_log : \A b \in call_log :
            a.fn = b.fn =>
                /\ (/\ a.fn = "bp_status"
                    /\ a.receiver.blood_pressure[1] <= b.receiver.blood_pressure[1]
                    /\ a.receiver.blood_pressure[2] <= b.receiver.blood_pressure[2])
                       => rank[a.result] <= rank[b.result]
                /\ (/\ a.fn = "o2_status"
                    /\ a.receiver.oxygen_saturation >= b.receiver.oxygen_saturation)
                       => rank[a.result] <= rank[b.result]
                /\ (/\ a.fn = "hr_status"
                    /\ a.receiver.heart_rate >= b.receiver.heart_rate
                    /\ a.receiver.heart_rate <= 100)
                       => rank[a.result] <= rank[b.result]
                /\ (/\ a.fn = "hr_status"
                    /\ a.receiver.heart_rate <= b.receiver.heart_rate
                    /\ a.receiver.heart_rate >= 60)
                       => rank[a.result] <= rank[b.result]

\* bp_status has returned High on (150, 90) and Critical on (181, 90),
\* hr_status High on 55 and Critical on 45, o2_status High on 91 and
\* Critical on 89
C19_Witness ==
    /\ vitals.blood_pressure = <<181, 90>>
    /\ vitals.heart_rate = 45
    /\ vitals.oxygen_saturation = 89
    /\ status = [bp |-> "Critical", hr |-> "Critical", o2 |-> "Critical"]
    /\ \E a \in call_log :
           /\ a.fn = "bp_status" /\ a.result = "High"
           /\ a.receiver.blood_pressure = <<150, 90>>
    /\ \E a \in call_log :
           /\ a.fn = "hr_status" /\ a.result = "High"
           /\ a.receiver.heart_rate = 55
    /\ \E a \in call_log :
           /\ a.fn = "o2_status" /\ a.result = "High"
           /\ a.receiver.oxygen_saturation = 91

---------------------------------------------------------------------------
(* Interleaved classifier calls (SpecConcurrent). *)

\* C15: with any number of callers running classifier calls interleaved on
\* one shared record, every call that has returned has returned the level
\* the classifier gives when called alone on the record the call was given,
\* and no step of any call changes the record or the application state.
C15_Interleaved ==
    /\ [](\A c \in Callers :
              callers[c].result # NoCall =>
                  callers[c].result = call(callers[c].fn, callers[c].self))
    /\ [](\A c \in call_log : c.result = call(c.fn, c.receiver))
    /\ [][/\ vitals' = vitals
          /\ UNCHANGED <<app_vars, clock, screen, status>>]_vars

\* a call of o2_status that was in its else if while a call of hr_status
\* returned Critical has returned High, as it does alone
C15_Witness ==
    /\ vitals.heart_rate = 45
    /\ vitals.oxygen_saturation = 91
    /\ callers[1].pc = "idle" /\ callers[2].pc = "idle"
    /\ callers[1].fn = "o2_status" /\ callers[2].fn = "hr_status"
    /\ callers[1].result = "High" /\ callers[2].result = "Critical"
    /\ callers[1].overlapped /\ callers[2].overlapped
    /\ Cardinality(call_log) = 2

===========================================================================
